---- MODULE Spec2Model ----
(***************************************************************************)
(* State-machine model of the guiascr backend (src/server.js): the OAuth   *)
(* install handshake with its pending-state table and sweep, the two auth  *)
(* middlewares, the extension-key and sender-config endpoints, the         *)
(* webhooks, and the three Sequelize tables they read and write.           *)
(*                                                                         *)
(* Every route handler is one action.  The HTTP response of the most       *)
(* recent request is kept in `last`.  The platform (token exchange, order  *)
(* API) and the database connection are environment: their outcome is an   *)
(* input of the action.                                                    *)
(***************************************************************************)
EXTENDS Integers, Sequences, FiniteSets, TLC

VARIABLES
  temporaryStates,  \* Map "state_"+shop -> {state, timestamp}      (line 41)
  now,              \* Date.now(), in ms
  nextSweep,        \* the time the setInterval callback is next due
  Shop,             \* table shops:          shop -> row
  ExtensionKey,     \* table extension_keys: accessKey -> row
  SenderConfig,     \* table sender_configs: shop -> row
  retired,          \* history: keys revoked, or deactivated by an uninstall
  written,          \* history: per sender-config row, the values last written
  swept,            \* history: shops whose pending state the sweep removed
  last,             \* the most recent request and its response
  inflight          \* handlers suspended at an await, and where they are

vars == <<temporaryStates, now, nextSweep, Shop, ExtensionKey, SenderConfig,
          retired, written, swept, last, inflight>>

None == <<>>              \* an absent domain, key, header or digest
Undefined == "undefined"  \* an absent string-valued parameter

----------------------------------------------------------------------------
(* Bounds of the model *)

MaxKeys == 2        \* access keys that generateAccessKey can still draw
MaxTime == 600000   \* the clock stops advancing here

----------------------------------------------------------------------------
(* Strings.  A domain name is the sequence of its pieces, so that the      *)
(* pattern of /api/auth can be matched piece by piece.                     *)

ShopA == <<"a", ".", "myshopify", ".", "com">>
ShopB == <<"b", ".", "myshopify", ".", "com">>
BadShop == <<"a", ".", "evil", ".", "com">>
Shops == {ShopA, ShopB}
ShopInputs == Shops \cup {BadShop, None}

StateTokens == {"s1", "s2"}           \* values of crypto.randomBytes(16)
Codes == {"c1"}                       \* authorization codes
Tokens == {"t1", "t2"}                \* platform access tokens
Delays == {100000, 200000}            \* how far the clock moves in one step

SHOPIFY_API_SECRET == "secret"
Secrets == {SHOPIFY_API_SECRET, "guess"}

\* crypto.createHmac('sha256', secret).update(msg): collision free
HmacSha256(secret, msg) == <<"hmac-sha256", secret, msg>>
DigestHex(h) == <<"hex", h>>
DigestBase64(h) == <<"base64", h>>

----------------------------------------------------------------------------
(* The pending-state table *)

StateKey(shop) == <<"state_", shop>>

Has(m, k) == k \in DOMAIN m
MapSet(m, k, v) == [x \in DOMAIN m \cup {k} |-> IF x = k THEN v ELSE m[x]]
MapDelete(m, k) == [x \in DOMAIN m \ {k} |-> m[x]]

SWEEP_INTERVAL == 300000
STATE_TTL == 300000

\* a faulty variant: an entry of exactly the limit's age counts as expired
ExpiredAtLimit(entry, t) == t - entry.timestamp >= STATE_TTL

\* line 57
Expired(entry, t) == t - entry.timestamp > STATE_TTL

\* setInterval callback, lines 54-61
SweepStates ==
  /\ now >= nextSweep
  /\ temporaryStates' =
       [k \in {x \in DOMAIN temporaryStates : ~Expired(temporaryStates[x], now)}
          |-> temporaryStates[k]]
  /\ swept' = swept \cup
       {k[2] : k \in {x \in DOMAIN temporaryStates : Expired(temporaryStates[x], now)}}
  /\ nextSweep' = now + SWEEP_INTERVAL
  /\ last' = [op |-> "sweep", at |-> now]
  /\ UNCHANGED <<now, Shop, ExtensionKey, SenderConfig, retired, written>>
  /\ UNCHANGED inflight

\* the passage of time between two requests; the timer is punctual: the
\* clock does not pass the time a sweep is due before the sweep has run
Tick(d) ==
  /\ now + d <= MaxTime
  /\ now + d <= nextSweep
  /\ now' = now + d
  /\ last' = [op |-> "tick"]
  /\ UNCHANGED <<temporaryStates, nextSweep, Shop, ExtensionKey, SenderConfig,
                 retired, written, swept>>
  /\ UNCHANGED inflight

----------------------------------------------------------------------------
(* GET /api/auth, lines 67-99 *)

AlphaNum == {"a", "b", "myshopify", "com", "evil"}

\* /^[a-zA-Z0-9][a-zA-Z0-9\-]*\.myshopify\.com$/ on a sequence of pieces
shopRegexTest(s) ==
  /\ Len(s) >= 5
  /\ s[1] \in AlphaNum
  /\ \A i \in 2..(Len(s) - 4) : s[i] \in AlphaNum \cup {"-"}
  /\ SubSeq(s, Len(s) - 3, Len(s)) = <<".", "myshopify", ".", "com">>

\* a faulty variant: only the presence of the parameter is checked
AuthStatusAnyDomain(shop) ==
  IF shop = None THEN 400 ELSE 302

AuthStatus(shop) ==
  IF shop = None THEN 400
  ELSE IF ~shopRegexTest(shop) THEN 400
  ELSE 302

Auth(shop, state) ==
  /\ IF AuthStatus(shop) = 302
       THEN /\ temporaryStates' = MapSet(temporaryStates, StateKey(shop),
                                         [state |-> state, timestamp |-> now])
            /\ swept' = swept \ {shop}
            /\ last' = [op |-> "auth", shop |-> shop, status |-> 302,
                        state |-> state,
                        replaced |-> IF Has(temporaryStates, StateKey(shop))
                                       THEN temporaryStates[StateKey(shop)].state
                                       ELSE Undefined]
       ELSE /\ last' = [op |-> "auth", shop |-> shop, status |-> 400,
                        state |-> Undefined, replaced |-> Undefined]
            /\ UNCHANGED <<temporaryStates, swept>>
  /\ UNCHANGED <<now, nextSweep, Shop, ExtensionKey, SenderConfig, retired, written>>
  /\ UNCHANGED inflight

----------------------------------------------------------------------------
(* Table operations of the persistence layer, lines 899-1098 *)

\* a faulty variant: the upsert leaves uninstalledAt of an existing row as it is
saveShopSessionKeepsUninstalled(shop, accessToken) ==
  MapSet(Shop, shop,
         [accessToken |-> accessToken, isActive |-> TRUE,
          uninstalledAt |-> IF Has(Shop, shop) THEN Shop[shop].uninstalledAt
                            ELSE Undefined])

\* Shop.upsert of saveShopSession, lines 901-908
saveShopSession(shop, accessToken) ==
  MapSet(Shop, shop, [accessToken |-> accessToken, isActive |-> TRUE,
                      uninstalledAt |-> Undefined])

\* a faulty variant: the row is looked up by the shop alone
getShopSessionAnyRow(shop, dbUp) ==
  dbUp /\ Has(Shop, shop)

\* Shop.findOne where {shop, isActive: true}, lines 920-925
\* (dbUp = FALSE: the query throws and the catch returns null)
getShopSessionFound(shop, dbUp) ==
  dbUp /\ Has(Shop, shop) /\ Shop[shop].isActive

\* 'sk_' + crypto.randomBytes(32).toString('hex'), line 975: a key that
\* no row holds yet
generateAccessKey == <<"sk_", Cardinality(DOMAIN ExtensionKey) + 1>>

KeyAvailable == Cardinality(DOMAIN ExtensionKey) < MaxKeys

\* ExtensionKey.create of createExtensionKey, lines 989-994
createExtensionKeyRow(shop, name) ==
  MapSet(ExtensionKey, generateAccessKey,
         [shop |-> shop, name |-> name, isActive |-> TRUE,
          lastUsedAt |-> Undefined])

\* createExtensionKey throws when the shop is not found or the insert fails
createExtensionKeyOk(shop, dbUp) == getShopSessionFound(shop, dbUp)

----------------------------------------------------------------------------
(* GET /api/auth/callback, lines 101-161 *)

\* Array.prototype.sort over the parameter names that occur
ParamOrder == <<"code", "shop", "state", "timestamp">>

SortedKeys(q) ==
  LET In(k) == k \in DOMAIN q IN SelectSeq(ParamOrder, In)

\* lines 111-116: key=value pairs of the query without hmac, joined by &
QueryString(q) ==
  LET keys == SortedKeys(q) IN [i \in 1..Len(keys) |-> <<keys[i], q[keys[i]]>>]

\* lines 118-121
CallbackHash(q) == DigestHex(HmacSha256(SHOPIFY_API_SECRET, QueryString(q)))

QueryShop(q) == IF "shop" \in DOMAIN q THEN q.shop ELSE None
QueryState(q) == IF "state" \in DOMAIN q THEN q.state ELSE Undefined

\* a faulty variant: the saved state is looked up and its value is not compared
StateAcceptedAnyValue(q) ==
  Has(temporaryStates, StateKey(QueryShop(q)))

\* line 107, negated: a saved state exists and equals the query's state
StateAccepted(q) ==
  /\ Has(temporaryStates, StateKey(QueryShop(q)))
  /\ temporaryStates[StateKey(QueryShop(q))].state = QueryState(q)

\* line 123, negated
HmacAccepted(q, hmac) == CallbackHash(q) = hmac

\* what the platform and the database do once the handler reaches the
\* token exchange: exchange is "fail" or the access token answered; saveUp,
\* keyUp tell whether the database call of saveShopSession and of
\* createExtensionKey goes through
InstallOutcomes ==
  [exchange : Tokens \cup {"fail"}, saveUp : BOOLEAN, keyUp : BOOLEAN]

InstallSucceeds(tokenSet) ==
  [exchange : tokenSet, saveUp : {TRUE}, keyUp : {TRUE}]

\* where the handler ends: the two 403 exits, the catch (500), the redirect
CallbackStage(q, hmac, o) ==
  IF ~StateAccepted(q) THEN "state"
  ELSE IF ~HmacAccepted(q, hmac) THEN "hmac"
  ELSE IF o.exchange = "fail" THEN "exchange"
  ELSE IF ~o.saveUp THEN "save"
  ELSE IF ~o.keyUp THEN "key"
  ELSE "done"

CallbackStatus(stage) ==
  CASE stage \in {"state", "hmac"} -> 403
    [] stage \in {"exchange", "save", "key"} -> 500
    [] OTHER -> 302

\* a faulty variant: the entry stays after the checks
keepPendingState(shop) == temporaryStates

\* line 127
deletePendingState(shop) == MapDelete(temporaryStates, StateKey(shop))

\* the digest the platform puts on the query it redirects with
PlatformQueryDigest(q) ==
  DigestHex(HmacSha256(SHOPIFY_API_SECRET, QueryString(q)))

\* what the request meets in the pending-state table: no entry for its
\* shop, an entry with another state value, or one with its own
PendingFor(q) ==
  IF ~Has(temporaryStates, StateKey(QueryShop(q))) THEN "none"
  ELSE IF temporaryStates[StateKey(QueryShop(q))].state # QueryState(q)
    THEN "other"
  ELSE "match"

\* the request carries the state that the initiate just before it replaced
Superseded(q) ==
  /\ last.op = "auth"
  /\ last.status = 302
  /\ last.shop = QueryShop(q)
  /\ last.replaced # Undefined
  /\ last.replaced = QueryState(q)
  /\ last.state # QueryState(q)

\* The handler up to its response, for one outcome o of the calls it
\* awaits.  registerWebhooks (line 153) catches every failure and writes
\* nothing.
CallbackRun(q, hmac, o) ==
  LET stage == CallbackStage(q, hmac, o)
      shop == QueryShop(q)
  IN
  /\ stage = "done" => KeyAvailable
  /\ temporaryStates' =
       IF stage \in {"state", "hmac"} THEN temporaryStates
       ELSE deletePendingState(shop)
  /\ Shop' = IF stage \in {"key", "done"}
               THEN saveShopSession(shop, o.exchange) ELSE Shop
  /\ ExtensionKey' = IF stage = "done"
                       THEN createExtensionKeyRow(shop, "Access Key Inicial")
                       ELSE ExtensionKey
  /\ last' = [op |-> "callback", shop |-> shop,
              pending |-> PendingFor(q),
              superseded |-> Superseded(q),
              signed |-> hmac = PlatformQueryDigest(q),
              stage |-> stage, status |-> CallbackStatus(stage),
              exchange |-> IF stage \in {"state", "hmac"} THEN "none"
                           ELSE o.exchange,
              key |-> IF stage = "done" THEN generateAccessKey ELSE None,
              first |-> ~Has(Shop, shop),
              age |-> IF Has(temporaryStates, StateKey(shop))
                        THEN now - temporaryStates[StateKey(shop)].timestamp
                        ELSE -1]
  /\ UNCHANGED <<now, nextSweep, SenderConfig, retired, written, swept>>
  /\ UNCHANGED inflight

\* The outcomes are drawn only when the handler gets as far as the calls.
AuthCallback(q, hmac, outcomes) ==
  IF StateAccepted(q) /\ HmacAccepted(q, hmac)
    THEN \E o \in outcomes : CallbackRun(q, hmac, o)
    ELSE CallbackRun(q, hmac, [exchange |-> "fail", saveUp |-> FALSE,
                               keyUp |-> FALSE])

----------------------------------------------------------------------------
(* Authorization headers *)

\* A session token as jwt.decode sees it: its signature is never verified
\* (lines 177-190), so only the scheme and the dest claim count.
\* dest = None stands for a payload that does not decode or has no dest.
SessionHeaders ==
  {[scheme |-> "Bearer", signedBy |-> SHOPIFY_API_SECRET, dest |-> <<"https://", s>>] :
     s \in Shops}
  \cup {[scheme |-> "Bearer", signedBy |-> "guess", dest |-> <<"https://", s>>] :
     s \in {ShopA, BadShop}}
  \cup {[scheme |-> "Bearer", signedBy |-> "guess", dest |-> None],
        [scheme |-> "none", signedBy |-> "guess", dest |-> None]}

AccessKeys == {<<"sk_", n>> : n \in 1..MaxKeys}

KeyHeaders ==
  {[scheme |-> "Bearer", key |-> k] : k \in AccessKeys \cup {<<"pk_", 1>>}}
  \cup {[scheme |-> "none", key |-> None]}

\* payload.dest.replace('https://', ''), line 183
DestShop(dest) == IF dest[1] = "https://" THEN dest[2] ELSE dest[1]

\* verifySessionToken, lines 167-208: the shop put on the request, or None
\* when the middleware answers 401
verifySessionToken(h, dbUp) ==
  IF h.scheme # "Bearer" THEN None
  ELSE IF h.dest = None THEN None
  ELSE IF ~getShopSessionFound(DestShop(h.dest), dbUp) THEN None
  ELSE DestShop(h.dest)

\* the shop the middleware derives from the header, None when it has none
sessionShop(h) ==
  IF h.scheme # "Bearer" \/ h.dest = None THEN None ELSE DestShop(h.dest)

\* req.accessToken = shopData.accessToken, line 198
sessionAccessToken(h, dbUp) ==
  IF verifySessionToken(h, dbUp) = None THEN Undefined
  ELSE Shop[DestShop(h.dest)].accessToken

\* what `last` records of the middleware's work on an admin request
SessionFields(h, dbUp) ==
  [dest |-> sessionShop(h), token |-> sessionAccessToken(h, dbUp)]

\* ExtensionKey.findOne where {accessKey, isActive: true} joined with the
\* active Shop, lines 1007-1016
validateExtensionKey(accessKey, dbUp) ==
  /\ dbUp
  /\ Has(ExtensionKey, accessKey)
  /\ ExtensionKey[accessKey].isActive
  /\ Has(Shop, ExtensionKey[accessKey].shop)
  /\ Shop[ExtensionKey[accessKey].shop].isActive

\* verifyExtensionKey, lines 214-244: whether next() is called
verifyExtensionKey(h, dbUp) ==
  /\ h.scheme = "Bearer"
  /\ h.key # None
  /\ h.key[1] = "sk_"
  /\ validateExtensionKey(h.key, dbUp)

\* key.update({ lastUsedAt }), line 1020
touchKey(accessKey) ==
  [ExtensionKey EXCEPT ![accessKey].lastUsedAt = "used"]

\* what the extension-key middleware leaves in the key table
AfterKeyAuth(h, dbUp) ==
  IF verifyExtensionKey(h, dbUp) THEN touchKey(h.key) ELSE ExtensionKey

KeyShop(h) == ExtensionKey[h.key].shop

\* the request as `last` records it for an endpoint behind the key middleware
KeyRequest(op, h, dbUp, status) ==
  [op |-> op, key |-> h.key, retired |-> h.key \in retired,
   passed |-> verifyExtensionKey(h, dbUp),
   status |-> IF verifyExtensionKey(h, dbUp) THEN status ELSE 401]

----------------------------------------------------------------------------
(* Extension key management, lines 250-320 and 1036-1068 *)

\* getShopExtensionKeys: active keys of the shop, newest first
getShopExtensionKeys(shop, dbUp) ==
  LET n == Cardinality(DOMAIN ExtensionKey)
      all == [i \in 1..n |-> <<"sk_", n + 1 - i>>]
      Mine(k) == ExtensionKey[k].shop = shop /\ ExtensionKey[k].isActive
  IN IF dbUp THEN SelectSeq(all, Mine) ELSE <<>>

ListKeys(h, dbUp) ==
  LET shop == verifySessionToken(h, dbUp) IN
  /\ last' = SessionFields(h, dbUp) @@
             IF shop = None
               THEN [op |-> "listKeys", shop |-> None, status |-> 401, keys |-> <<>>]
               ELSE [op |-> "listKeys", shop |-> shop, status |-> 200,
                     keys |-> getShopExtensionKeys(shop, dbUp)]
  /\ UNCHANGED <<temporaryStates, now, nextSweep, Shop, ExtensionKey,
                 SenderConfig, retired, written, swept>>
  /\ UNCHANGED inflight

KeyNames == {Undefined, "Mi Computadora"}   \* the name of the request body

\* name || 'Nuevo Access Key', line 280
keyName(name) == IF name = Undefined THEN "Nuevo Access Key" ELSE name

CreateKeyRun(h, name, authUp, dbUp) ==
  LET shop == verifySessionToken(h, authUp)
      ok == shop # None /\ createExtensionKeyOk(shop, dbUp)
  IN
  /\ ok => KeyAvailable
  /\ ExtensionKey' = IF ok THEN createExtensionKeyRow(shop, keyName(name))
                     ELSE ExtensionKey
  /\ last' = [op |-> "createKey", shop |-> shop,
              status |-> IF shop = None THEN 401 ELSE IF ok THEN 200 ELSE 500,
              key |-> IF ok THEN generateAccessKey ELSE None]
             @@ SessionFields(h, authUp)
  /\ UNCHANGED <<temporaryStates, now, nextSweep, Shop, SenderConfig,
                 retired, written, swept>>
  /\ UNCHANGED inflight

\* POST /api/app/extension-keys, lines 275-299; authUp, dbUp: whether the
\* queries of the middleware and of createExtensionKey go through
CreateKey(h, name, authUp) ==
  IF verifySessionToken(h, authUp) # None
    THEN \E dbUp \in BOOLEAN : CreateKeyRun(h, name, authUp, dbUp)
    ELSE CreateKeyRun(h, name, authUp, FALSE)

\* a faulty variant: the update filters by the key alone
revokeExtensionKeyAnyShop(accessKey, shop) ==
  [k \in DOMAIN ExtensionKey |->
     IF k = accessKey
       THEN [ExtensionKey[k] EXCEPT !.isActive = FALSE]
       ELSE ExtensionKey[k]]

\* ExtensionKey.update({isActive: false}, {where: {accessKey, shop}})
revokeExtensionKey(accessKey, shop) ==
  [k \in DOMAIN ExtensionKey |->
     IF k = accessKey /\ ExtensionKey[k].shop = shop
       THEN [ExtensionKey[k] EXCEPT !.isActive = FALSE]
       ELSE ExtensionKey[k]]

RevokeKeyRun(h, accessKey, authUp, dbUp) ==
  LET shop == verifySessionToken(h, authUp)
      ok == shop # None /\ dbUp
  IN
  /\ ExtensionKey' = IF ok THEN revokeExtensionKey(accessKey, shop) ELSE ExtensionKey
  /\ retired' = IF ok /\ Has(ExtensionKey, accessKey)
                      /\ ExtensionKey[accessKey].shop = shop
                  THEN retired \cup {accessKey} ELSE retired
  /\ last' = [op |-> "revokeKey", shop |-> shop, key |-> accessKey,
              status |-> IF shop = None THEN 401 ELSE 200]
             @@ SessionFields(h, authUp)
  /\ UNCHANGED <<temporaryStates, now, nextSweep, Shop, SenderConfig, written,
                 swept>>
  /\ UNCHANGED inflight

\* DELETE /api/app/extension-keys/:accessKey, lines 301-320; a failing
\* update is logged and the answer is still success (lines 1065-1067)
RevokeKey(h, accessKey, authUp) ==
  IF verifySessionToken(h, authUp) # None
    THEN \E dbUp \in BOOLEAN : RevokeKeyRun(h, accessKey, authUp, dbUp)
    ELSE RevokeKeyRun(h, accessKey, authUp, FALSE)

----------------------------------------------------------------------------
(* Sender config, lines 322-362, 480-515 and 1074-1098 *)

\* the ten fields GET /api/sender-config copies, lines 495-504
SenderFields ==
  {"senderIdentificationType", "senderId", "senderName", "senderPhone",
   "senderMail", "provinciaSender", "cantonSender", "distritoSender",
   "senderPostalCode", "senderDirection"}

\* the columns of sender_configs (lines 812-866; timestamps: true)
SenderColumns == SenderFields \cup {"shop", "updatedAt"}

\* defaultValue of the model, lines 822-862; "null" where there is none
SenderDefault(f) ==
  IF f \in {"senderIdentificationType", "provinciaSender", "cantonSender",
            "distritoSender"} THEN "1" ELSE "null"

FullConfig(v) == [f \in SenderFields |-> v]

\* request bodies: a full config, a partial one, one with a field that is
\* no column, and ones that carry a `shop` of their own
ConfigBodies ==
  {FullConfig("x"), FullConfig("y"),
   ("senderName" :> "z"),
   FullConfig("x") @@ ("note" :> "n"),
   FullConfig("y") @@ ("updatedAt" :> "never")}
  \cup {FullConfig("z") @@ ("shop" :> s) : s \in Shops \cup {BadShop}}

\* the row SenderConfig.upsert({shop, ...config}) addresses: a `shop` of
\* the body overrides the one of the request (line 1076-1079)
upsertShop(shop, config) == IF "shop" \in DOMAIN config THEN config.shop ELSE shop

\* the row after the upsert: the columns given are written, the others
\* keep their value (or take their default when the row is new)
upsertRow(shop, config) ==
  LET target == upsertShop(shop, config) IN
  [f \in SenderColumns |->
     IF f = "shop" THEN target
     ELSE IF f \in DOMAIN config THEN config[f]
     ELSE IF f = "updatedAt" THEN "now"
     ELSE IF Has(SenderConfig, target) THEN SenderConfig[target][f]
     ELSE SenderDefault(f)]

\* the upsert throws on a database failure or when the row's shop is not
\* in shops (foreign key, lines 813-820)
saveSenderConfigOk(shop, config, dbUp) ==
  dbUp /\ Has(Shop, upsertShop(shop, config))

saveSenderConfig(shop, config) ==
  MapSet(SenderConfig, upsertShop(shop, config), upsertRow(shop, config))

\* history: the whitelisted values this POST wrote into the row it addressed
WrittenAfter(shop, config) ==
  LET target == upsertShop(shop, config)
      old == IF Has(written, target) THEN written[target] ELSE <<>>
      new == [f \in (DOMAIN config \cap SenderFields) |-> config[f]]
  IN MapSet(written, target, new @@ old)

PostConfigRun(h, config, authUp, dbUp) ==
  LET passed == verifyExtensionKey(h, authUp)
      ok == passed /\ saveSenderConfigOk(KeyShop(h), config, dbUp)
  IN
  /\ SenderConfig' = IF ok THEN saveSenderConfig(KeyShop(h), config)
                     ELSE SenderConfig
  /\ written' = IF ok THEN WrittenAfter(KeyShop(h), config) ELSE written
  /\ ExtensionKey' = AfterKeyAuth(h, authUp)
  /\ last' = KeyRequest("postSenderConfig", h, authUp, IF ok THEN 200 ELSE 500)
               @@ [shop |-> IF passed THEN KeyShop(h) ELSE None,
                   target |-> IF passed THEN upsertShop(KeyShop(h), config)
                              ELSE None]
  /\ UNCHANGED <<temporaryStates, now, nextSweep, Shop, retired, swept>>
  /\ UNCHANGED inflight

\* POST /api/sender-config, lines 322-342
PostSenderConfig(h, config, authUp) ==
  IF verifyExtensionKey(h, authUp)
    THEN \E dbUp \in BOOLEAN : PostConfigRun(h, config, authUp, dbUp)
    ELSE PostConfigRun(h, config, authUp, FALSE)

\* a faulty variant: the stored row is returned as it is
senderConfigRaw(row) == row

\* the projection of lines 494-505
senderConfigView(row) ==
  [f \in SenderFields |-> row[f]]

GetConfigRun(h, authUp, dbUp) ==
  LET passed == verifyExtensionKey(h, authUp)
      found == passed /\ dbUp /\ Has(SenderConfig, KeyShop(h))
  IN
  /\ ExtensionKey' = AfterKeyAuth(h, authUp)
  /\ last' = KeyRequest("getSenderConfig", h, authUp, IF found THEN 200 ELSE 404)
               @@ [shop |-> IF passed THEN KeyShop(h) ELSE None,
                   config |-> IF found THEN senderConfigView(SenderConfig[KeyShop(h)])
                              ELSE <<>>]
  /\ UNCHANGED <<temporaryStates, now, nextSweep, Shop, SenderConfig, retired,
                 written, swept>>
  /\ UNCHANGED inflight

\* GET /api/sender-config, lines 480-515; getSenderConfig returns null
\* when its query fails (lines 1094-1097)
GetSenderConfig(h, authUp) ==
  IF verifyExtensionKey(h, authUp)
    THEN \E dbUp \in BOOLEAN : GetConfigRun(h, authUp, dbUp)
    ELSE GetConfigRun(h, authUp, FALSE)

\* GET /api/app/sender-config: the raw row, or {} when there is none
GetAppSenderConfig(h, authUp, dbUp) ==
  LET shop == verifySessionToken(h, authUp) IN
  /\ last' = [op |-> "getAppSenderConfig", shop |-> shop,
              status |-> IF shop = None THEN 401 ELSE 200,
              config |-> IF shop # None /\ dbUp /\ Has(SenderConfig, shop)
                           THEN SenderConfig[shop] ELSE <<>>]
             @@ SessionFields(h, authUp)
  /\ UNCHANGED <<temporaryStates, now, nextSweep, Shop, ExtensionKey,
                 SenderConfig, retired, written, swept>>
  /\ UNCHANGED inflight

----------------------------------------------------------------------------
(* Order proxy, lines 368-478: the platform answers or fails *)

OrdersRun(h, authUp, upstreamOk) ==
  /\ ExtensionKey' = AfterKeyAuth(h, authUp)
  /\ last' = KeyRequest("ordersPending", h, authUp,
                        IF upstreamOk THEN 200 ELSE 500)
  /\ UNCHANGED <<temporaryStates, now, nextSweep, Shop, SenderConfig, retired,
                 written, swept>>
  /\ UNCHANGED inflight

\* GET /api/orders/pending
OrdersPending(h, authUp) ==
  IF verifyExtensionKey(h, authUp)
    THEN \E upstreamOk \in BOOLEAN : OrdersRun(h, authUp, upstreamOk)
    ELSE OrdersRun(h, authUp, FALSE)

\* complete: order_id and tracking_number are both in the body (line 439)
TrackingRun(h, authUp, complete, upstreamOk) ==
  /\ ExtensionKey' = AfterKeyAuth(h, authUp)
  /\ last' = KeyRequest("updateTracking", h, authUp,
                        IF ~complete THEN 400
                        ELSE IF upstreamOk THEN 200 ELSE 500)
  /\ UNCHANGED <<temporaryStates, now, nextSweep, Shop, SenderConfig, retired,
                 written, swept>>
  /\ UNCHANGED inflight

\* POST /api/orders/update-tracking
UpdateTracking(h, authUp) ==
  IF verifyExtensionKey(h, authUp)
    THEN \E complete \in BOOLEAN, upstreamOk \in BOOLEAN :
           TrackingRun(h, authUp, complete, upstreamOk)
    ELSE TrackingRun(h, authUp, FALSE, FALSE)

----------------------------------------------------------------------------
(* Webhooks, lines 29, 44-51, 521-551 and 620-677 *)

\* Deliveries are sent as application/json, so express.raw (line 29) leaves
\* the body bytes, a Buffer, in req.body.  A body is its payload; json
\* tells whether the bytes parse as JSON.
WebhookBodies ==
  {[json |-> TRUE, shop_domain |-> s] : s \in Shops}
  \cup {[json |-> FALSE, shop_domain |-> None]}

\* the bytes of the Buffer, as the hash consumes them
BufferBytes(body) == <<"bytes", body>>

\* JSON.stringify of a Buffer: the text {"type":"Buffer","data":[...]},
\* which is never the text the Buffer holds
JsonStringifyBuffer(body) == <<"buffer-json", body>>

\* the digest the platform sends: base64 HMAC-SHA256 of the request body
PlatformDigest(body) ==
  DigestBase64(HmacSha256(SHOPIFY_API_SECRET, BufferBytes(body)))

\* the values of the x-shopify-hmac-sha256 header
WebhookDigests(body) ==
  {PlatformDigest(body),
   DigestBase64(HmacSha256(SHOPIFY_API_SECRET, JsonStringifyBuffer(body))),
   DigestBase64(HmacSha256("guess", BufferBytes(body))),
   DigestHex(HmacSha256(SHOPIFY_API_SECRET, BufferBytes(body))),
   None}

\* verifyShopifyWebhook, lines 44-51
verifyShopifyWebhook(data, hmacHeader) ==
  DigestBase64(HmacSha256(SHOPIFY_API_SECRET, BufferBytes(data))) = hmacHeader

\* the check of the uninstall handler, lines 525-530
uninstallHashAccepted(body, hmac) ==
  DigestBase64(HmacSha256(SHOPIFY_API_SECRET, JsonStringifyBuffer(body))) = hmac

\* Shop.update of deleteShopSession, lines 936-944
deactivateShop(shop) ==
  [s \in DOMAIN Shop |->
     IF s = shop THEN [Shop[s] EXCEPT !.isActive = FALSE, !.uninstalledAt = "set"]
     ELSE Shop[s]]

\* ExtensionKey.update of deleteShopSession, lines 947-950
deactivateKeys(shop) ==
  [k \in DOMAIN ExtensionKey |->
     IF ExtensionKey[k].shop = shop
       THEN [ExtensionKey[k] EXCEPT !.isActive = FALSE]
       ELSE ExtensionKey[k]]

KeysOf(shop) == {k \in DOMAIN ExtensionKey : ExtensionKey[k].shop = shop}

\* deleteShopSession, lines 934-956: it catches a failing update; shopUp,
\* keysUp tell which of its two updates go through, and the second is not
\* tried when the first throws
DeleteOutcomes == [shopUp : BOOLEAN, keysUp : BOOLEAN]

UninstallRun(shop, body, hmac, o) ==
  LET ok == uninstallHashAccepted(body, hmac) IN
  /\ Shop' = IF ok /\ o.shopUp THEN deactivateShop(shop) ELSE Shop
  /\ ExtensionKey' = IF ok /\ o.shopUp /\ o.keysUp THEN deactivateKeys(shop)
                     ELSE ExtensionKey
  /\ retired' = IF ok /\ o.shopUp /\ Has(Shop, shop)
                  THEN retired \cup KeysOf(shop) ELSE retired
  /\ last' = [op |-> "uninstalled", shop |-> shop,
              signed |-> hmac = PlatformDigest(body),
              outcome |-> "response", status |-> IF ok THEN 200 ELSE 403]
  /\ UNCHANGED <<temporaryStates, now, nextSweep, SenderConfig, written, swept>>
  /\ UNCHANGED inflight

\* POST /api/webhooks/app/uninstalled, lines 521-538; shop is the
\* x-shopify-shop-domain header
Uninstalled(shop, body, hmac) ==
  IF uninstallHashAccepted(body, hmac)
    THEN \E o \in DeleteOutcomes : UninstallRun(shop, body, hmac, o)
    ELSE UninstallRun(shop, body, hmac, [shopUp |-> FALSE, keysUp |-> FALSE])

\* What becomes of a request whose async handler rejects with nothing to
\* catch it: the router never learns of it and no response is sent, or (a
\* router that forwards rejections) the default error handler answers 500
\* with an HTML page.
UncaughtOutcomes == {"unhandledRejection", "defaultErrorPage"}

\* POST /api/webhooks (probe), /api/webhooks/customers/data_request and
\* /api/webhooks/shop/redact: verify, log, answer.  A body that does not
\* parse makes JSON.parse throw in the two GDPR handlers (lines 629, 668);
\* data_request is synchronous, so the router answers with its error page.
WebhookStub(op, body, hmac, uncaught) ==
  LET ok == verifyShopifyWebhook(body, hmac)
      throws == ok /\ op # "probe" /\ ~body.json
  IN
  /\ op = "dataRequest" => uncaught = "defaultErrorPage"
  /\ last' = [op |-> op, shop |-> None,
              signed |-> hmac = PlatformDigest(body),
              outcome |-> IF throws THEN uncaught ELSE "response",
              status |-> IF ~ok THEN 401 ELSE IF throws THEN 500 ELSE 200]
  /\ UNCHANGED <<temporaryStates, now, nextSweep, Shop, ExtensionKey,
                 SenderConfig, retired, written, swept>>
  /\ UNCHANGED inflight

\* POST /api/webhooks/customers/redact, lines 641-657.  deleteShopData is
\* destructured from the database module (line 24), which does not export
\* it (lines 1104-1129): it is undefined, and calling it throws a TypeError
\* after the HMAC check and JSON.parse; nothing in the handler catches it.
deleteShopDataDefined == FALSE

CustomersRedact(body, hmac, uncaught) ==
  LET ok == verifyShopifyWebhook(body, hmac)
      throws == ok /\ (~body.json \/ ~deleteShopDataDefined)
  IN
  /\ last' = [op |-> "customersRedact", shop |-> body.shop_domain,
              signed |-> hmac = PlatformDigest(body),
              outcome |-> IF throws THEN uncaught ELSE "response",
              status |-> IF ~ok THEN 401 ELSE IF throws THEN 500 ELSE 200]
  /\ UNCHANGED <<temporaryStates, now, nextSweep, Shop, ExtensionKey,
                 SenderConfig, retired, written, swept>>
  /\ UNCHANGED inflight

\* getActiveShopsCount, lines 958-967: 0 when the count throws
getActiveShopsCount(dbUp) ==
  IF dbUp THEN Cardinality({s \in DOMAIN Shop : Shop[s].isActive}) ELSE 0

\* GET /api/health, lines 594-603
Health(dbUp) ==
  /\ last' = [op |-> "health", outcome |-> "response", status |-> 200,
              stores |-> getActiveShopsCount(dbUp)]
  /\ UNCHANGED <<temporaryStates, now, nextSweep, Shop, ExtensionKey,
                 SenderConfig, retired, written, swept>>
  /\ UNCHANGED inflight

----------------------------------------------------------------------------
(* The system *)

\* no handler is suspended
Idle ==
  [create |-> [pc |-> "idle", shop |-> None],
   uninstall |-> [pc |-> "idle", shop |-> None]]

Init ==
  /\ temporaryStates = <<>>
  /\ now = 0
  /\ nextSweep = SWEEP_INTERVAL
  /\ Shop = <<>>
  /\ ExtensionKey = <<>>
  /\ SenderConfig = <<>>
  /\ retired = {}
  /\ written = <<>>
  /\ swept = {}
  /\ last = [op |-> "start"]
  /\ inflight = Idle

\* the queries of a callback: shop, code and state as the platform echoes
\* them, with or without a timestamp
CallbackQueries ==
  {[code |-> c, shop |-> s, state |-> st] :
     c \in Codes, s \in Shops \cup {BadShop}, st \in StateTokens}
  \cup {[code |-> c, shop |-> s, state |-> st, timestamp |-> "1700000000"] :
     c \in Codes, s \in Shops, st \in StateTokens}
  \cup {[code |-> c, state |-> st] : c \in Codes, st \in StateTokens}
  \cup {[code |-> c, shop |-> s] : c \in Codes, s \in Shops}

\* the hmac parameter: the platform's digest of this query, digests that
\* differ from it in the secret, the encoding or the message, and none
CallbackDigests(q) ==
  {DigestHex(HmacSha256(SHOPIFY_API_SECRET, QueryString(q))),
   DigestHex(HmacSha256("guess", QueryString(q))),
   DigestBase64(HmacSha256(SHOPIFY_API_SECRET, QueryString(q))),
   DigestHex(HmacSha256(SHOPIFY_API_SECRET, QueryString([code |-> "c0"]))),
   None}

\* the query the platform redirects back with
PlatformQueries ==
  {[code |-> c, shop |-> s, state |-> st] :
     c \in Codes, s \in Shops, st \in StateTokens}

\* the install flow with its inputs drawn from the given sets
OAuthWith(shops, stateSet, queries, outcomes) ==
  \/ \E shop \in shops, state \in stateSet : Auth(shop, state)
  \/ \E q \in queries :
       \E hmac \in CallbackDigests(q) : AuthCallback(q, hmac, outcomes)

OAuthNext == OAuthWith(ShopInputs, StateTokens, CallbackQueries, InstallOutcomes)

ClockNext ==
  \/ SweepStates
  \/ \E d \in Delays : Tick(d)

\* key management behind the session-token middleware
AdminWith(names) ==
  \/ \E h \in SessionHeaders, dbUp \in BOOLEAN : ListKeys(h, dbUp)
  \/ \E h \in SessionHeaders, name \in names, authUp \in BOOLEAN :
       CreateKey(h, name, authUp)
  \/ \E h \in SessionHeaders, k \in AccessKeys, authUp \in BOOLEAN :
       RevokeKey(h, k, authUp)

\* the endpoints behind the extension-key middleware
ExtensionWith(bodies) ==
  \/ \E h \in KeyHeaders, config \in bodies, authUp \in BOOLEAN :
       PostSenderConfig(h, config, authUp)
  \/ \E h \in KeyHeaders, authUp \in BOOLEAN : GetSenderConfig(h, authUp)
  \/ \E h \in KeyHeaders, authUp \in BOOLEAN : OrdersPending(h, authUp)
  \/ \E h \in KeyHeaders, authUp \in BOOLEAN : UpdateTracking(h, authUp)

AdminConfigNext ==
  \E h \in SessionHeaders, authUp \in BOOLEAN, dbUp \in BOOLEAN :
    GetAppSenderConfig(h, authUp, dbUp)

UninstallWith(shops, bodies) ==
  \E shop \in shops, body \in bodies :
    \E hmac \in WebhookDigests(body) : Uninstalled(shop, body, hmac)

UninstallNext == UninstallWith(Shops, WebhookBodies)

WebhookNext ==
  \/ \E op \in {"probe", "dataRequest", "shopRedact"}, body \in WebhookBodies,
        uncaught \in UncaughtOutcomes :
       \E hmac \in WebhookDigests(body) : WebhookStub(op, body, hmac, uncaught)
  \/ \E body \in WebhookBodies, uncaught \in UncaughtOutcomes :
       \E hmac \in WebhookDigests(body) : CustomersRedact(body, hmac, uncaught)
  \/ \E dbUp \in BOOLEAN : Health(dbUp)

Next ==
  \/ OAuthNext
  \/ ClockNext
  \/ AdminWith(KeyNames)
  \/ ExtensionWith(ConfigBodies)
  \/ AdminConfigNext
  \/ UninstallNext
  \/ WebhookNext

Spec == Init /\ [][Next]_vars

----------------------------------------------------------------------------
(* Specifications of the parts, each with the inputs its part turns on *)

\* installs of the given shops that go through, with one state value and
\* one token
PlainInstall(shops) ==
  OAuthWith(shops, {"s1"},
            {q \in PlatformQueries : q.state = "s1" /\ q.shop \in shops},
            InstallSucceeds({"t1"}))

\* uninstall deliveries for the given shops, with a body that names them
PlainUninstall(shops) ==
  \E shop \in shops :
    UninstallWith({shop}, {b \in WebhookBodies : b.shop_domain = shop})

\* the outcomes of an install, with one token
OneTokenOutcomes == {o \in InstallOutcomes : o.exchange \in {"t1", "fail"}}

\* The checks of the callback, on every query and digest.
HandshakeNext ==
  OAuthWith(ShopInputs, StateTokens, CallbackQueries, OneTokenOutcomes)

HandshakeSpec == Init /\ [][HandshakeNext]_vars

\* Install, uninstall and reinstall of one shop, with every outcome of the
\* install's calls.
InstallNext ==
  \/ OAuthWith({ShopA}, {"s1"},
               {q \in PlatformQueries : q.state = "s1" /\ q.shop = ShopA},
               InstallOutcomes)
  \/ PlainUninstall({ShopA})

InstallSpec == Init /\ [][InstallNext]_vars

\* Pending states against the clock and the sweep.
ExpiryNext ==
  \/ OAuthWith(Shops, {"s1"},
               {q \in PlatformQueries : q.state = "s1" /\ q.shop = ShopA},
               InstallSucceeds({"t1"}))
  \/ ClockNext

ExpirySpec == Init /\ [][ExpiryNext]_vars

\* One shop's keys through revocation, uninstall and reinstall, presented
\* to the four endpoints behind the key middleware.
RetireNext ==
  \/ PlainInstall({ShopA})
  \/ \E h \in SessionHeaders, k \in AccessKeys, authUp \in BOOLEAN :
       RevokeKey(h, k, authUp)
  \/ ExtensionWith({FullConfig("x")})
  \/ PlainUninstall({ShopA})

RetireSpec == Init /\ [][RetireNext]_vars

\* Key management of two shops.
KeysNext ==
  \/ PlainInstall(Shops)
  \/ AdminWith({Undefined})

KeysSpec == Init /\ [][KeysNext]_vars

\* Sender config behind the key middleware, with installs.
\* each shop installs once
FirstInstall(shops) ==
  \E shop \in shops : ~Has(Shop, shop) /\ PlainInstall({shop})

ConfigNext ==
  \/ FirstInstall(Shops)
  \/ \E h \in KeyHeaders, config \in ConfigBodies, authUp \in BOOLEAN :
       PostSenderConfig(h, config, authUp)
  \/ \E h \in KeyHeaders, authUp \in BOOLEAN : GetSenderConfig(h, authUp)

ConfigSpec == Init /\ [][ConfigNext]_vars

\* The webhooks and the health check, with installs.
WebhookSpecNext ==
  \/ PlainInstall(Shops)
  \/ UninstallNext
  \/ WebhookNext

WebhookSpec == Init /\ [][WebhookSpecNext]_vars

\* The admin endpoints behind the session-token middleware, with two shops
\* that hold different tokens and whose installs come and go.
SessionNext ==
  \/ OAuthWith({ShopA}, {"s1"},
               {q \in PlatformQueries : q.state = "s1" /\ q.shop = ShopA},
               InstallSucceeds(Tokens))
  \/ ~Has(Shop, ShopB) /\ PlainInstall({ShopB})
  \/ PlainUninstall({ShopA})
  \/ \E h \in SessionHeaders, authUp \in BOOLEAN :
       \/ ListKeys(h, authUp)
       \/ CreateKey(h, Undefined, authUp)
       \/ RevokeKey(h, <<"sk_", 1>>, authUp)
       \/ GetAppSenderConfig(h, authUp, TRUE)

SessionSpec == Init /\ [][SessionNext]_vars

\* Handlers step by step.  A handler runs until its next await and then
\* yields to whatever else is ready (a single event loop): create-key
\* awaits getShopSession in the middleware (line 193), getShopSession again
\* in createExtensionKey (line 982) and ExtensionKey.create (line 989);
\* the uninstall webhook awaits Shop.update (line 936) and
\* ExtensionKey.update (line 947).  The database is up throughout.

RaceUnchanged ==
  UNCHANGED <<temporaryStates, now, nextSweep, SenderConfig, written, swept>>

\* the middleware of POST /api/app/extension-keys, lines 167-208
CreateKeyAuthed(h) ==
  LET shop == verifySessionToken(h, TRUE) IN
  /\ inflight.create.pc = "idle"
  /\ IF shop = None
       THEN /\ last' = [op |-> "createKey", shop |-> None, status |-> 401,
                        key |-> None] @@ SessionFields(h, TRUE)
            /\ UNCHANGED inflight
       ELSE /\ inflight' = [inflight EXCEPT !.create = [pc |-> "authed", shop |-> shop]]
            /\ UNCHANGED last
  /\ UNCHANGED <<Shop, ExtensionKey, retired>>
  /\ RaceUnchanged

\* getShopSession of createExtensionKey, lines 982-985
CreateKeyShopFound ==
  LET shop == inflight.create.shop IN
  /\ inflight.create.pc = "authed"
  /\ IF getShopSessionFound(shop, TRUE)
       THEN /\ inflight' = [inflight EXCEPT !.create.pc = "found"]
            /\ UNCHANGED last
       ELSE /\ inflight' = [inflight EXCEPT !.create = Idle.create]
            /\ last' = [op |-> "createKey", shop |-> shop, status |-> 500,
                        key |-> None, dest |-> shop, token |-> Undefined]
  /\ UNCHANGED <<Shop, ExtensionKey, retired>>
  /\ RaceUnchanged

\* ExtensionKey.create and the response, lines 989-994 and 282-290
CreateKeyInserted ==
  LET shop == inflight.create.shop IN
  /\ inflight.create.pc = "found"
  /\ KeyAvailable
  /\ ExtensionKey' = createExtensionKeyRow(shop, keyName(Undefined))
  /\ inflight' = [inflight EXCEPT !.create = Idle.create]
  /\ last' = [op |-> "createKey", shop |-> shop, status |-> 200,
              key |-> generateAccessKey, dest |-> shop, token |-> Undefined]
  /\ UNCHANGED <<Shop, retired>>
  /\ RaceUnchanged

\* the hash check and Shop.update of the uninstall webhook, lines 521-533
\* and 936-944
UninstallShopUpdated(shop, body, hmac) ==
  /\ inflight.uninstall.pc = "idle"
  /\ IF uninstallHashAccepted(body, hmac)
       THEN /\ Shop' = deactivateShop(shop)
            /\ inflight' = [inflight EXCEPT
                              !.uninstall = [pc |-> "shopUpdated", shop |-> shop]]
            /\ UNCHANGED last
       ELSE /\ last' = [op |-> "uninstalled", shop |-> shop,
                        signed |-> hmac = PlatformDigest(body),
                        outcome |-> "response", status |-> 403]
            /\ UNCHANGED <<Shop, inflight>>
  /\ UNCHANGED <<ExtensionKey, retired>>
  /\ RaceUnchanged

\* ExtensionKey.update and the response, lines 947-950 and 535-537
UninstallKeysUpdated ==
  LET shop == inflight.uninstall.shop IN
  /\ inflight.uninstall.pc = "shopUpdated"
  /\ ExtensionKey' = deactivateKeys(shop)
  /\ inflight' = [inflight EXCEPT !.uninstall = Idle.uninstall]
  /\ retired' = IF Has(Shop, shop) THEN retired \cup KeysOf(shop) ELSE retired
  /\ last' = [op |-> "uninstalled", shop |-> shop, signed |-> FALSE,
              outcome |-> "response", status |-> 200]
  /\ UNCHANGED Shop
  /\ RaceUnchanged

\* Create-key and the uninstall webhook interleaved, with installs and the
\* key middleware around them.
RaceNext ==
  \/ PlainInstall({ShopA})
  \/ \E h \in SessionHeaders : CreateKeyAuthed(h)
  \/ CreateKeyShopFound
  \/ CreateKeyInserted
  \/ \E body \in {b \in WebhookBodies : b.shop_domain = ShopA} :
       \E hmac \in WebhookDigests(body) : UninstallShopUpdated(ShopA, body, hmac)
  \/ UninstallKeysUpdated
  \/ \E h \in KeyHeaders : GetSenderConfig(h, TRUE)

RaceSpec == Init /\ [][RaceNext]_vars

\* The initiate route on domains on both sides of the pattern, with the
\* callbacks that consume what it stores.
HyphenShop == <<"a", "-", "b", ".", "myshopify", ".", "com">>
LeadingHyphen == <<"-", "a", ".", "myshopify", ".", "com">>
SuffixedShop == <<"a", ".", "myshopify", ".", "com", ".", "evil">>
BareShop == <<".", "myshopify", ".", "com">>
AuthInputs ==
  ShopInputs \cup {HyphenShop, LeadingHyphen, SuffixedShop, BareShop}

InitiateNext ==
  OAuthWith(AuthInputs, StateTokens,
            {q \in PlatformQueries : q.shop = ShopA}, InstallSucceeds({"t1"}))

InitiateSpec == Init /\ [][InitiateNext]_vars

----------------------------------------------------------------------------
(* The OAuth callback *)

\* C1: a callback goes on to the token exchange, and writes a shop or a
\* key, only when the pending entry of its shop holds its state value and
\* its hmac is the hex digest of its sorted query; every other callback is
\* answered 403 and leaves the shop and key tables as they are.
C1_CallbackGate ==
  [][last'.op = "callback" =>
       /\ (last'.stage \notin {"state", "hmac"})
            <=> (last'.pending = "match" /\ last'.signed)
       /\ (last'.pending # "match" \/ ~last'.signed)
            => /\ last'.status = 403
               /\ UNCHANGED <<Shop, ExtensionKey>>]_vars

\* a correctly signed callback with the state an earlier initiate issued
\* and a later initiate replaced, answered 403
C1_Witness ==
  /\ last.op = "callback"
  /\ last.superseded
  /\ last.signed
  /\ last.pending = "other"
  /\ last.status = 403

\* C4 (as claimed): a callback that arrives more than 300000 ms after the
\* initiate that issued its state is answered 403.
C4_Claim ==
  (last.op = "callback" /\ last.age > 300000) => last.status = 403

\* C5: a run of the sweep removes exactly the pending states older than
\* 300000 ms, and a callback for a shop whose state the sweep removed is
\* answered 403 until an initiate for that shop stores a new one.
C5_Sweep ==
  [][/\ last'.op = "sweep" =>
          \A k \in DOMAIN temporaryStates :
            IF now - temporaryStates[k].timestamp > 300000
              THEN k \notin DOMAIN temporaryStates'
              ELSE /\ k \in DOMAIN temporaryStates'
                   /\ temporaryStates'[k] = temporaryStates[k]
     /\ (last'.op = "callback" /\ last'.shop \in swept) =>
          last'.status = 403]_vars

\* a correctly signed callback, for a shop whose state the sweep removed,
\* answered 403
C5_Witness ==
  /\ last.op = "callback"
  /\ last.shop \in swept
  /\ last.signed
  /\ last.status = 403

----------------------------------------------------------------------------
(* Extension keys *)

ExtensionOps ==
  {"postSenderConfig", "getSenderConfig", "ordersPending", "updateTracking"}

\* C2 (as claimed): a request that presents a key that was revoked, or
\* whose shop the uninstall webhook deactivated, to an endpoint behind the
\* key middleware is answered 401 and does not reach the handler.
C2_Claim ==
  (last.op \in ExtensionOps /\ last.retired)
  => (last.status = 401 /\ ~last.passed)

\* C3 (as claimed): an uninstall delivery for an installed shop that
\* carries the base64 HMAC-SHA256 of its body is answered 200 and leaves
\* the shop and its keys inactive; any other delivery is answered 403.
C3_Claim ==
  (last.op = "uninstalled" /\ Has(Shop, last.shop))
  => IF last.signed
       THEN /\ last.status = 200
            /\ ~Shop[last.shop].isActive
            /\ \A k \in KeysOf(last.shop) : ~ExtensionKey[k].isActive
       ELSE last.status = 403

\* C9: a revoke request changes no row but that of the key it names, and
\* that one only when the key belongs to the authenticated shop: a key of
\* another shop stays as it was, and so does every shop and config row.
C9_RevokeScoped ==
  [][last'.op = "revokeKey" =>
       /\ DOMAIN ExtensionKey' = DOMAIN ExtensionKey
       /\ \A k \in DOMAIN ExtensionKey :
            \/ ExtensionKey'[k] = ExtensionKey[k]
            \/ /\ k = last'.key
               /\ ExtensionKey[k].shop = last'.shop
               /\ ExtensionKey'[k] = [ExtensionKey[k] EXCEPT !.isActive = FALSE]
       /\ UNCHANGED <<Shop, SenderConfig, temporaryStates>>]_vars

\* shop A's revoke request, answered with success, for an active key of
\* shop B: the key is active afterwards and validates
C9_Witness ==
  /\ last.op = "revokeKey"
  /\ last.status = 200
  /\ Has(ExtensionKey, last.key)
  /\ ExtensionKey[last.key].shop # last.shop
  /\ validateExtensionKey(last.key, TRUE)

----------------------------------------------------------------------------
(* Sender config *)

----------------------------------------------------------------------------
(* Webhooks *)

\* C7 (as claimed): a customers/redact delivery whose HMAC verifies, for
\* an installed shop, is answered 200 and leaves no shop row, key or sender
\* config of the shop it names.
C7_Claim ==
  (last.op = "customersRedact" /\ last.signed /\ last.shop \in Shops)
  => /\ last.outcome = "response"
     /\ last.status = 200
     /\ ~Has(Shop, last.shop)
     /\ KeysOf(last.shop) = {}
     /\ ~Has(SenderConfig, last.shop)

\* C8 (as claimed): whatever is thrown while a handler runs is caught by
\* the handler and the request is answered.
C8_Claim ==
  "outcome" \in DOMAIN last => last.outcome = "response"

----------------------------------------------------------------------------
(* GET /api/auth *)

\* the inputs that are a domain of the platform: one or more letters,
\* digits or hyphens, the first no hyphen, then .myshopify.com
PatternShops == Shops \cup {HyphenShop}

\* C11: GET /api/auth with a shop that matches the domain pattern stores
\* an entry under "state_" + shop and redirects with the state value that
\* entry holds, every other entry as it was; with a missing or
\* non-matching shop it answers 400 and leaves the table unchanged.
C11_Initiate ==
  [][last'.op = "auth" =>
       IF last'.shop \in PatternShops
         THEN /\ last'.status = 302
              /\ Has(temporaryStates', StateKey(last'.shop))
              /\ temporaryStates'[StateKey(last'.shop)].state = last'.state
              /\ \A k \in DOMAIN temporaryStates' \ {StateKey(last'.shop)} :
                   /\ Has(temporaryStates, k)
                   /\ temporaryStates'[k] = temporaryStates[k]
              /\ DOMAIN temporaryStates \subseteq DOMAIN temporaryStates'
         ELSE /\ last'.status = 400
              /\ UNCHANGED temporaryStates]_vars

\* an initiate for a hyphenated domain that replaces the state of an
\* earlier one, while another shop has a pending entry too
C11_Witness ==
  /\ last.op = "auth"
  /\ last.shop = HyphenShop
  /\ last.status = 302
  /\ last.replaced \in StateTokens \ {last.state}
  /\ Has(temporaryStates, StateKey(ShopB))
  /\ temporaryStates[StateKey(HyphenShop)].state = last.state

----------------------------------------------------------------------------
(* Session-token middleware *)

AdminOps == {"listKeys", "createKey", "revokeKey", "getAppSenderConfig"}

\* C12: a request reaches an admin handler only if the shop derived from
\* its token's dest has a row and the row is active at that moment; then
\* the request carries that shop and the access token stored in that row.
\* A request whose dest names no shop, an unknown one or an inactive one is
\* answered 401 and changes nothing.
C12_SessionGate ==
  [][last'.op \in AdminOps =>
       LET Installed == /\ last'.dest # None
                        /\ Has(Shop, last'.dest)
                        /\ Shop[last'.dest].isActive
       IN /\ last'.status # 401 =>
               /\ Installed
               /\ last'.shop = last'.dest
               /\ last'.token = Shop[last'.dest].accessToken
          /\ ~Installed =>
               /\ last'.status = 401
               /\ UNCHANGED <<Shop, ExtensionKey, SenderConfig>>
          /\ UNCHANGED Shop]_vars

\* a request for a shop that is uninstalled is turned away while the other
\* shop is installed and holds another token
C12_Witness ==
  /\ last.op \in AdminOps
  /\ last.status = 401
  /\ last.dest \in Shops
  /\ Has(Shop, last.dest)
  /\ ~Shop[last.dest].isActive
  /\ \E other \in Shops \ {last.dest} :
       /\ Has(Shop, other)
       /\ Shop[other].isActive
       /\ Shop[other].accessToken # Shop[last.dest].accessToken

----------------------------------------------------------------------------
(* Tenant isolation of the sender config *)

\* C13 (as claimed): a POST /api/sender-config that passes the key
\* middleware with a key of a shop creates or changes the sender config
\* row of that shop only, whatever its body: the row of every other shop
\* is as it was, and none appears.
C13_Claim ==
  [][(last'.op = "postSenderConfig" /\ last'.passed) =>
       \A s \in (DOMAIN SenderConfig \cup DOMAIN SenderConfig') \ {last'.shop} :
         /\ Has(SenderConfig, s)
         /\ Has(SenderConfig', s)
         /\ SenderConfig'[s] = SenderConfig[s]]_vars

----------------------------------------------------------------------------
(* Handlers that interleave *)

\* C14 (as claimed): from the completion of an uninstall webhook for a shop
\* until the next install callback of that shop that succeeds, that is
\* while the shop's row is inactive and no uninstall of it is under way,
\* no extension key of the shop is active, however the handlers interleave.
C14_Claim ==
  \A s \in Shops :
    (/\ Has(Shop, s)
     /\ ~Shop[s].isActive
     /\ ~(inflight.uninstall.pc # "idle" /\ inflight.uninstall.shop = s))
    => \A k \in KeysOf(s) : ~ExtensionKey[k].isActive

----------------------------------------------------------------------------
(* A pending state is used once *)

\* C15: a callback that passes the state and the hmac check removes the
\* pending entry of its shop whatever comes after (redirect or 500); a
\* callback whose state matches and whose hmac does not is answered 403 and
\* leaves the entry; a callback for a shop without an entry is answered
\* 403; and only an initiate puts an entry into the table.  So the state
\* and hmac that passed once are rejected until a new initiate.
C15_SingleUse ==
  [][/\ last'.op = "callback" =>
          /\ (last'.pending = "match" /\ last'.signed) =>
               /\ last'.status \in {302, 500}
               /\ ~Has(temporaryStates', StateKey(last'.shop))
          /\ (last'.pending = "match" /\ ~last'.signed) =>
               /\ last'.status = 403
               /\ UNCHANGED temporaryStates
          /\ last'.pending = "none" =>
               /\ last'.status = 403
               /\ UNCHANGED <<temporaryStates, Shop, ExtensionKey>>
     /\ (DOMAIN temporaryStates' \ DOMAIN temporaryStates) # {} =>
          last'.op = "auth"]_vars

\* the replay of a signed callback whose first delivery saved the shop
\* and then failed with 500: the shop has a row and no key, no state is
\* pending, and the answer is 403
C15_Witness ==
  /\ last.op = "callback"
  /\ last.signed
  /\ last.pending = "none"
  /\ last.status = 403
  /\ Has(Shop, last.shop)
  /\ KeysOf(last.shop) = {}

----------------------------------------------------------------------------
(* Deactivated keys across a reinstall *)

\* C16 (as claimed): no step turns a key's active flag from false to true;
\* a key that was revoked or deactivated by an uninstall is answered 401;
\* and when an install callback reactivates a shop whose uninstall has
\* completed, every key the shop has from before is inactive, so that only
\* keys created after the reinstall authenticate.
C16_Claim ==
  [][/\ \A k \in DOMAIN ExtensionKey :
          ~ExtensionKey[k].isActive =>
            (Has(ExtensionKey', k) /\ ~ExtensionKey'[k].isActive)
     /\ (last'.op \in ExtensionOps /\ last'.retired) => last'.status = 401
     /\ \A s \in Shops :
          (/\ Has(Shop, s) /\ ~Shop[s].isActive
           /\ inflight.uninstall.pc = "idle"
           /\ Has(Shop', s) /\ Shop'[s].isActive)
          => \A k \in KeysOf(s) : ~ExtensionKey'[k].isActive]_vars

====
